---- MODULE Spec2Model ----
(***************************************************************************)
(* Model of server.py: the password gate, the session cookie, the four     *)
(* tables (users, preferences, conversations, messages), the completion    *)
(* client and the route handlers.  A handler that makes no blocking call   *)
(* is one action; a handler that calls chat_complete is split at the call  *)
(* (the request thread blocks there and other requests run meanwhile), and *)
(* login is split between its SELECT and its INSERT.                       *)
(***************************************************************************)
EXTENDS Integers, Sequences, FiniteSets, TLC

\* ---------------------------------------------------------------- bounds
MaxClock == 1
MaxConvs == 2
MaxMsgId == 2

\* Two browsers, each with its cookie jar and one request in flight at most.
Clients == {1, 2}

\* ------------------------------------------------------- python values
\* A JSON / Python value is a tagged record; v is only read under its tag.
PyNone == [t |-> "none", v |-> <<>>]
PyStr(s) == [t |-> "str", v |-> s]
PyNum(n) == [t |-> "num", v |-> n]
PyDict(d) == [t |-> "dict", v |-> d]
PyList(l) == [t |-> "list", v |-> l]
PyInvalid == [t |-> "invalid", v |-> <<>>]

\* Python truthiness, as used by `x or default`.
Truthy(x) ==
    CASE x.t = "none" -> FALSE
      [] x.t = "str" -> x.v # <<>>
      [] x.t = "num" -> x.v # 0
      [] x.t = "dict" -> x.v # <<>>
      [] x.t = "list" -> x.v # <<>>
      [] OTHER -> FALSE

PyOr(x, d) == IF Truthy(x) THEN x ELSE d

\* Text is a sequence of characters; " " stands for any whitespace.
Whitespace == {" "}

RECURSIVE LStrip(_)
LStrip(s) ==
    IF s = <<>> THEN s
    ELSE IF Head(s) \in Whitespace THEN LStrip(Tail(s)) ELSE s

RECURSIVE RStrip(_)
RStrip(s) ==
    IF s = <<>> THEN s
    ELSE IF s[Len(s)] \in Whitespace THEN RStrip(SubSeq(s, 1, Len(s) - 1)) ELSE s

\* A strip that strips nothing: what the stored text would be without .strip().
NoStrip(s) == s

\* str.strip()
Strip(s) == RStrip(LStrip(s))

\* ---------------------------------------------------------------- config
APP_PASSWORD == <<"p", "w">>

\* ----------------------------------------------------------------- state
VARIABLES
    now,            \* dt.datetime.utcnow(), a non-decreasing clock
    users,          \* users table: set of ids
    preferences,    \* preferences table: user_id -> data (JSON text)
    conversations,  \* conversations table: id -> [user_id, title, updated_at]
    messages,       \* messages table (committed rows: id, conversation_id, role, content)
    nextMsgId,      \* messages.id sequence
    session,        \* per client: the session cookie
    pc,             \* per client: where its request thread stands
    req,            \* per client: the locals of the request in flight
    ev              \* the last response sent

vars == <<now, users, preferences, conversations, messages, nextMsgId, session, pc, req, ev>>

NoSession == [authed |-> FALSE, user_id |-> 0]
NoReq == [route |-> "none"]
NoBody == [kind |-> "empty"]

Init ==
    /\ now = 0
    /\ users = {}
    /\ preferences = <<>>
    /\ conversations = <<>>
    /\ messages = {}
    /\ nextMsgId = 1
    /\ session = [c \in Clients |-> NoSession]
    /\ pc = [c \in Clients |-> "idle"]
    /\ req = [c \in Clients |-> NoReq]
    /\ ev = [client |-> 0, route |-> "none", method |-> "none", arg |-> NoBody,
             got |-> NoBody, status |-> 0, body |-> NoBody]

\* The response of a request: what the client sent (its method, route and the
\* part of the body the handler read), what the completion call gave if one
\* was made, and what the client receives.
RespondAfter(c, route, method, arg, got, status, body) ==
    ev' = [client |-> c, route |-> route, method |-> method, arg |-> arg,
           got |-> got, status |-> status, body |-> body]

Respond(c, route, method, arg, status, body) ==
    RespondAfter(c, route, method, arg, NoBody, status, body)

Returned(raw) == [kind |-> "returned", raw |-> raw]
Raised(e) == [kind |-> "raised", exc |-> e]

\* abort(code)
Abort(code) == [kind |-> "abort", code |-> code]
\* An exception no handler catches: Flask's generic 500 page.
Unhandled == [kind |-> "internal_server_error"]
Json(kv) == [kind |-> "json", json |-> kv]

\* ------------------------------------------------------------ the clock
Tick ==
    /\ now < MaxClock
    /\ now' = now + 1
    /\ UNCHANGED <<users, preferences, conversations, messages, nextMsgId, session, pc, req, ev>>

\* ------------------------------------------------------------- auth gate
\* A gate that lets every session through.
AuthAlways(s) == TRUE

\* require_auth: session.get("authed") is True and session.get("user_id")
IsAuthed(s) == s.authed = TRUE /\ s.user_id # 0

\* require_auth, session not authenticated: 204 for OPTIONS, else abort(401)
GateStatus(method) == IF method = "OPTIONS" THEN 204 ELSE 401

GateBody(method) == IF method = "OPTIONS" THEN NoBody ELSE Abort(401)

\* The methods each wrapped route is registered with.
Methods ==
    [logout |-> {"POST", "OPTIONS"}, me |-> {"GET"},
     preferences |-> {"GET", "POST", "OPTIONS"}, conversations |-> {"GET", "POST", "OPTIONS"},
     conv_messages |-> {"GET", "POST", "OPTIONS"}, chat |-> {"POST", "OPTIONS"},
     plan |-> {"POST", "OPTIONS"}, analyze_meal |-> {"POST", "OPTIONS"},
     estimate_macros |-> {"POST", "OPTIONS"}, suggest_swaps |-> {"POST", "OPTIONS"}]

GatedRoutes == DOMAIN Methods

\* _wrap when the session is not authenticated: fn is not called.  Every
\* handler action below carries the other branch, IsAuthed, as its guard.
RequireAuthRefuse(c) ==
    /\ pc[c] = "idle"
    /\ ~IsAuthed(session[c])
    /\ \E route \in GatedRoutes : \E method \in Methods[route] :
          Respond(c, route, method, NoBody, GateStatus(method), GateBody(method))
    /\ UNCHANGED <<now, users, preferences, conversations, messages, nextMsgId, session, pc, req>>

\* if request.method == "OPTIONS": return ("", 204) -- the first statement of
\* every wrapped handler registered for OPTIONS, reached when authenticated.
Preflight(c) ==
    /\ pc[c] = "idle"
    /\ IsAuthed(session[c])
    /\ \E route \in {r \in GatedRoutes : "OPTIONS" \in Methods[r]} :
          Respond(c, route, "OPTIONS", NoBody, 204, NoBody)
    /\ UNCHANGED <<now, users, preferences, conversations, messages, nextMsgId, session, pc, req>>

\* get_user: db.get(User, uid)
GetUser(c) == IF session[c].user_id \in users THEN session[c].user_id ELSE 0

\* Only a POST carries a JSON body; the other methods are sent without one.
BodyOf(method, inputs) == IF method = "POST" THEN inputs ELSE {PyNone}

\* ------------------------------------------------------------- /health
Health(c) ==
    /\ pc[c] = "idle"
    /\ Respond(c, "health", "GET", NoBody, 200, Json([ok |-> TRUE]))
    /\ UNCHANGED <<now, users, preferences, conversations, messages, nextMsgId, session, pc, req>>

\* -------------------------------------------------------------- /login
PasswordInputs ==
    { PyNone, PyStr(APP_PASSWORD), PyStr(<<" ">> \o APP_PASSWORD \o <<" ">>),
      PyStr(<<"p", " ", "w">>), PyNum(5) }

\* A comparison that accepts every password.
PasswordAny(pwd) == TRUE

\* pwd != APP_PASSWORD is the refusal
PasswordOk(pwd) == pwd = APP_PASSWORD

LoginWith(c, inputs) ==
    /\ pc[c] = "idle"
    /\ \E method \in {"POST", "OPTIONS"} :
       \E password \in BodyOf(method, inputs) :
        LET arg == [password |-> password]
            given == PyOr(password, PyStr(<<>>))
        IN  IF method = "OPTIONS" THEN
                /\ Respond(c, "login", method, arg, 204, NoBody)
                /\ UNCHANGED <<now, users, preferences, conversations, messages, nextMsgId, session, pc, req>>
            ELSE IF given.t # "str" THEN
                \* .strip() of a non-string: AttributeError
                /\ Respond(c, "login", method, arg, 500, Unhandled)
                /\ UNCHANGED <<now, users, preferences, conversations, messages, nextMsgId, session, pc, req>>
            ELSE IF ~PasswordOk(Strip(given.v)) THEN
                /\ Respond(c, "login", method, arg, 401, Json([ok |-> FALSE, error |-> <<"Bad password">>]))
                /\ UNCHANGED <<now, users, preferences, conversations, messages, nextMsgId, session, pc, req>>
            ELSE IF users = {} THEN
                \* select(User).limit(1) found no row; the INSERT is the next step
                /\ pc' = [pc EXCEPT ![c] = "login_insert"]
                /\ req' = [req EXCEPT ![c] = [route |-> "login", method |-> method, arg |-> arg]]
                /\ UNCHANGED <<now, users, preferences, conversations, messages, nextMsgId, session, ev>>
            ELSE
                \* select(User).limit(1): no ORDER BY, any row may come back
                \E u \in users :
                    /\ session' = [session EXCEPT ![c] = [authed |-> TRUE, user_id |-> u]]
                    /\ Respond(c, "login", method, arg, 200, Json([ok |-> TRUE]))
                    /\ UNCHANGED <<now, users, preferences, conversations, messages, nextMsgId, pc, req>>

Login(c) == LoginWith(c, PasswordInputs)

\* A login by someone who knows the password.
LoginRight(c) == LoginWith(c, {PyStr(APP_PASSWORD)})

\* u = User(); db.add(u); db.commit(); then the session is set
LoginInsert(c) ==
    /\ pc[c] = "login_insert"
    /\ LET u == Cardinality(users) + 1
       IN  /\ users' = users \cup {u}
           /\ session' = [session EXCEPT ![c] = [authed |-> TRUE, user_id |-> u]]
           /\ Respond(c, "login", req[c].method, req[c].arg, 200, Json([ok |-> TRUE]))
    /\ pc' = [pc EXCEPT ![c] = "idle"]
    /\ req' = [req EXCEPT ![c] = NoReq]
    /\ UNCHANGED <<now, preferences, conversations, messages, nextMsgId>>

\* ------------------------------------------------------------- /logout
Logout(c) ==
    /\ pc[c] = "idle"
    /\ IsAuthed(session[c])
    /\ session' = [session EXCEPT ![c] = NoSession]
    /\ Respond(c, "logout", "POST", NoBody, 200, Json([ok |-> TRUE]))
    /\ UNCHANGED <<now, users, preferences, conversations, messages, nextMsgId, pc, req>>

\* ------------------------------------------------------ sorting, slices
RECURSIVE SortById(_)
\* order_by="Message.id": the rows of S in ascending id
SortById(S) ==
    IF S = {} THEN <<>>
    ELSE LET m == CHOOSE x \in S : \A y \in S : x.id <= y.id
         IN  <<m>> \o SortById(S \ {m})

RECURSIVE SortByIdDesc(_)
\* the rows of S in descending id
SortByIdDesc(S) ==
    IF S = {} THEN <<>>
    ELSE LET m == CHOOSE x \in S : \A y \in S : x.id >= y.id
         IN  <<m>> \o SortByIdDesc(S \ {m})

\* seq[-n:]
LastN(seq, n) == IF Len(seq) <= n THEN seq ELSE SubSeq(seq, Len(seq) - n + 1, Len(seq))

\* seq[:n]
FirstN(seq, n) == IF Len(seq) <= n THEN seq ELSE SubSeq(seq, 1, n)

\* json.dumps / json.loads of the preferences blob
JsonDumps(x) == [t |-> "text", v |-> x]
JsonLoads(txt) == txt.v

EmptyDict == PyDict(<<>>)

\* u.preferences.data if u.preferences else "{}"
PrefsText(u) == IF u \in DOMAIN preferences THEN preferences[u] ELSE JsonDumps(EmptyDict)

\* ----------------------------------------------------------------- /me
Me(c) ==
    /\ pc[c] = "idle"
    /\ IsAuthed(session[c])
    /\ LET u == GetUser(c)
       IN   /\ IF u = 0 THEN Respond(c, "me", "GET", NoBody, 401, Abort(401))
                   ELSE Respond(c, "me", "GET", NoBody, 200,
                                Json([id |-> u, preferences |-> JsonLoads(PrefsText(u))]))
                /\ UNCHANGED <<now, users, preferences, conversations, messages, nextMsgId, session, pc, req>>

\* -------------------------------------------------------- /preferences
PrefInputs == { PyNone, PyDict(<<"vegan">>) }

Preferences(c) ==
    /\ pc[c] = "idle"
    /\ IsAuthed(session[c])
    /\ \E method \in {"GET", "POST"} :
       \E data \in BodyOf(method, PrefInputs) :
        LET arg == [data |-> data]
            u == GetUser(c)
        IN  IF u = 0 THEN
                /\ Respond(c, "preferences", method, arg, 401, Abort(401))
                /\ UNCHANGED <<now, users, preferences, conversations, messages, nextMsgId, session, pc, req>>
            ELSE IF method = "GET" THEN
                /\ Respond(c, "preferences", method, arg, 200, Json([data |-> JsonLoads(PrefsText(u))]))
                /\ UNCHANGED <<now, users, preferences, conversations, messages, nextMsgId, session, pc, req>>
            ELSE
                /\ preferences' = (u :> JsonDumps(PyOr(data, EmptyDict))) @@ preferences
                /\ Respond(c, "preferences", method, arg, 200, Json([ok |-> TRUE]))
                /\ UNCHANGED <<now, users, conversations, messages, nextMsgId, session, pc, req>>

\* ------------------------------------------------------ /conversations
TitleInputs == { PyNone }

ConvsOf(u) == {cid \in DOMAIN conversations : conversations[cid].user_id = u}

\* The orders ORDER BY updated_at DESC may return (ties in any order).
ByRecency(S) ==
    { q \in [1..Cardinality(S) -> S] :
        /\ \A i, j \in 1..Cardinality(S) : i # j => q[i] # q[j]
        /\ \A i, j \in 1..Cardinality(S) :
              i < j => conversations[q[i]].updated_at >= conversations[q[j]].updated_at }

NewConvId == Cardinality(DOMAIN conversations) + 1

Conversations(c) ==
    /\ pc[c] = "idle"
    /\ IsAuthed(session[c])
    /\ \E method \in {"GET", "POST"} :
       \E title \in BodyOf(method, TitleInputs) :
        LET arg == [title |-> title]
            u == GetUser(c)
        IN  IF u = 0 THEN
                /\ Respond(c, "conversations", method, arg, 401, Abort(401))
                /\ UNCHANGED <<now, users, preferences, conversations, messages, nextMsgId, session, pc, req>>
            ELSE IF method = "GET" THEN
                /\ \E q \in ByRecency(ConvsOf(u)) :
                      Respond(c, "conversations", method, arg, 200,
                              Json([rows |-> [i \in DOMAIN q |->
                                      [id |-> q[i], title |-> conversations[q[i]].title,
                                       updated_at |-> conversations[q[i]].updated_at]]]))
                /\ UNCHANGED <<now, users, preferences, conversations, messages, nextMsgId, session, pc, req>>
            ELSE
                /\ NewConvId <= MaxConvs
                /\ LET t == PyOr(title, PyStr(<<"New Conversation">>)).v
                   IN  /\ conversations' = (NewConvId :> [user_id |-> u, title |-> t, updated_at |-> now])
                                            @@ conversations
                       /\ Respond(c, "conversations", method, arg, 200, Json([id |-> NewConvId, title |-> t]))
                /\ UNCHANGED <<now, users, preferences, messages, nextMsgId, session, pc, req>>

\* ------------------------------------------- the chat turn (both routes)
WINDOW == 12

SysPrompt(u) ==
    LET prefs_json == IF u \in DOMAIN preferences THEN JsonLoads(preferences[u]) ELSE EmptyDict
    IN  [role |-> "system",
         content |-> IF Truthy(prefs_json) THEN <<"coach", "prefs">> \o prefs_json.v ELSE <<"coach">>]

RoleContent(rows) == [i \in DOMAIN rows |-> [role |-> rows[i].role, content |-> rows[i].content]]

\* Rows the request's own session sees in c.messages after db.flush():
\* the committed rows of the conversation and its own flushed user row.
\* Writers do not wait for one another here, as on a server database; where
\* the engine admits one writer at a time (SQLite) a second flush waits for
\* the first commit or fails, which leaves a subset of these interleavings.
VisibleRows(cid, m_user) == {m \in messages : m.conversation_id = cid} \cup {m_user}

\* [... for m in c.messages[-12:]] + [{"role": "user", "content": text}]
LastMsgs(cid, m_user, text) ==
    RoleContent(LastN(SortById(VisibleRows(cid, m_user)), WINDOW))
        \o <<[role |-> "user", content |-> text]>>

\* m_user is added and flushed, the context is built, chat_complete is entered
\* (at time `entered`).
StartTurn(c, route, method, arg, u, cid, text) ==
    LET m_user == [id |-> nextMsgId, conversation_id |-> cid, role |-> "user",
                   content |-> text]
    IN  /\ nextMsgId' = nextMsgId + 1
        /\ pc' = [pc EXCEPT ![c] = "awaiting"]
        /\ req' = [req EXCEPT ![c] =
                     [route |-> route, method |-> method, arg |-> arg, cid |-> cid,
                      text |-> text, m_user |-> m_user, entered |-> now,
                      call |-> [messages |-> <<SysPrompt(u)>> \o LastMsgs(cid, m_user, text),
                                max_tokens |-> 500]]]

\* ------------------------------------- /conversations/<cid>/messages
MessageInputs == { PyNone, PyStr(<<" ", "a", " ">>), PyNum(5) }

ConvIds == 1..(MaxConvs + 1)

\* An ownership test that only asks whether the conversation exists.
OwnsAny(u, cid) == cid \in DOMAIN conversations

\* not (not c or c.user_id != u.id)
Owns(u, cid) == cid \in DOMAIN conversations /\ conversations[cid].user_id = u

\* The rows of the conversation, newest first.
MessageListDesc(cid) == SortByIdDesc({m \in messages : m.conversation_id = cid})

\* [{"id", "role", "content", ...} for m in c.messages]
MessageList(cid) == SortById({m \in messages : m.conversation_id = cid})

ConvMessages(c) ==
    /\ pc[c] = "idle"
    /\ IsAuthed(session[c])
    /\ \E method \in {"GET", "POST"}, cid \in ConvIds :
        LET u == GetUser(c)
            early == [cid |-> cid, message |-> PyNone]   \* the body is not read yet
        IN  IF u = 0 THEN
                /\ Respond(c, "conv_messages", method, early, 401, Abort(401))
                /\ UNCHANGED <<now, users, preferences, conversations, messages, nextMsgId, session, pc, req>>
            ELSE IF ~Owns(u, cid) THEN
                /\ Respond(c, "conv_messages", method, early, 404, Abort(404))
                /\ UNCHANGED <<now, users, preferences, conversations, messages, nextMsgId, session, pc, req>>
            ELSE IF method = "GET" THEN
                /\ Respond(c, "conv_messages", method, early, 200, Json([msgs |-> MessageList(cid)]))
                /\ UNCHANGED <<now, users, preferences, conversations, messages, nextMsgId, session, pc, req>>
            ELSE \E message \in MessageInputs :
                LET arg == [cid |-> cid, message |-> message]
                    given == PyOr(message, PyStr(<<>>))
                IN  IF given.t # "str" THEN
                        \* .strip() of a non-string: AttributeError
                        /\ Respond(c, "conv_messages", method, arg, 500, Unhandled)
                        /\ UNCHANGED <<now, users, preferences, conversations, messages, nextMsgId, session, pc, req>>
                    ELSE IF Strip(given.v) = <<>> THEN
                        /\ Respond(c, "conv_messages", method, arg, 400, Json([error |-> <<"message required">>]))
                        /\ UNCHANGED <<now, users, preferences, conversations, messages, nextMsgId, session, pc, req>>
                    ELSE
                        /\ nextMsgId <= MaxMsgId
                        /\ StartTurn(c, "conv_messages", method, arg, u, cid, Strip(given.v))
                        /\ UNCHANGED <<now, users, preferences, conversations, messages, session, ev>>

\* ---------------------------------------------------------------- /chat
\* .order_by(Conversation.updated_at.desc()) ... .first()
Latest(u) == {cid \in ConvsOf(u) : \A d \in ConvsOf(u) :
                 conversations[cid].updated_at >= conversations[d].updated_at}

Chat(c) ==
    /\ pc[c] = "idle"
    /\ IsAuthed(session[c])
    /\ \E method \in {"POST"} :
       \E message \in BodyOf(method, MessageInputs) :
        LET arg == [message |-> message]
            u == GetUser(c)
            given == PyOr(message, PyStr(<<>>))
        IN  IF given.t # "str" THEN
                /\ Respond(c, "chat", method, arg, 500, Unhandled)
                /\ UNCHANGED <<now, users, preferences, conversations, messages, nextMsgId, session, pc, req>>
            ELSE IF u = 0 THEN
                /\ Respond(c, "chat", method, arg, 401, Abort(401))
                /\ UNCHANGED <<now, users, preferences, conversations, messages, nextMsgId, session, pc, req>>
            ELSE IF ConvsOf(u) = {} THEN
                \* c = Conversation(user_id=u.id, title="Coach"); db.add(c); db.commit()
                /\ NewConvId <= MaxConvs
                /\ nextMsgId <= MaxMsgId
                /\ conversations' = (NewConvId :> [user_id |-> u, title |-> <<"Coach">>, updated_at |-> now])
                                     @@ conversations
                /\ StartTurn(c, "chat", method, arg, u, NewConvId, Strip(given.v))
                /\ UNCHANGED <<now, users, preferences, messages, session, ev>>
            ELSE
                /\ nextMsgId <= MaxMsgId
                /\ \E cid \in Latest(u) : StartTurn(c, "chat", method, arg, u, cid, Strip(given.v))
                /\ UNCHANGED <<now, users, preferences, conversations, messages, session, ev>>

\* ---------------------------------------------------- completion client
\* What the completion API may answer: the characters of the text and
\* what json.loads makes of that text (PyInvalid: it raises).
Text(chars, json) == [chars |-> chars, json |-> json]

PyAbsent == [t |-> "absent", v |-> <<>>]
Meal(title, kcal, macros, items) == PyDict([title |-> title, kcal |-> kcal, macros |-> macros, items |-> items])
Macros(P, C, F) == PyDict([P |-> P, C |-> C, F |-> F])

NineItems == <<"i1", "i2", "i3", "i4", "i5", "i6", "i7", "i8", "i9">>

ChatRaws == { Text(<<"r", " ">>, PyInvalid) }

PlanRaws ==
    { Text(<<"Sure!">>, PyInvalid),
      Text(<<"{", "}">>, PyDict(<<>>)),
      Text(<<"7">>, PyNum(7)),
      Text(<<"n", "u", "l", "l">>, PyNone),
      Text(<<"[", "]">>, PyList(<<>>)),
      Text(<<"[", "1", "]">>, PyList(<<PyNum(1)>>)),
      Text(<<"[", "m", "]">>, PyList(<<Meal(PyAbsent, PyAbsent, PyAbsent, PyAbsent)>>)),
      Text(<<"[", "m", "m", "]">>,
           PyList(<<Meal(PyStr("Oats"), PyNum(300), Macros(PyNum(20), PyAbsent, PyNum(9)), PyList(NineItems)),
                    Meal(PyStr("Eggs"), PyStr("many"), PyAbsent, PyNone)>>)) }

Excs == { [name |-> "RateLimitError", msg |-> "quota exceeded"],
          [name |-> "APIConnectionError", msg |-> "connection error"] }

\* resp.choices[0].message.content.strip()
Content(raw) == Text(Strip(raw.chars), raw.json)

\* f"{type(e).__name__}: {str(e)}"
ErrorText(e) == <<e.name, ": ", e.msg>>

\* ---------------------------------------------------------------- /plan
FALLBACK ==
    << Meal(PyStr("High-Protein Breakfast Bowl"), PyNum(520), Macros(PyNum(45), PyNum(55), PyNum(15)),
            PyList(<<"4 eggs (2 whole, 2 whites)", "Oats 60g", "Blueberries", "Almonds">>)),
       Meal(PyStr("Simple Steak & Rice"), PyNum(680), Macros(PyNum(55), PyNum(65), PyNum(20)),
            PyList(<<"Sirloin 7oz", "Jasmine rice 200g cooked", "Broccoli", "Olive oil">>)),
       Meal(PyStr("Greek Yogurt Parfait"), PyNum(380), Macros(PyNum(30), PyNum(40), PyNum(10)),
            PyList(<<"Greek yogurt 250g", "Honey 1 tsp", "Granola 30g", "Strawberries">>)),
       Meal(PyStr("Evening Snack Wrap"), PyNum(360), Macros(PyNum(25), PyNum(35), PyNum(10)),
            PyList(<<"Whole-wheat wrap", "Turkey 4oz", "Spring mix", "Greek yogurt sauce">>)) >>

\* A fallback rule without the `or not meals_in` test: an empty list is kept.
MealsInNoEmptyCheck(raw) == IF raw.json.t # "list" THEN FALLBACK ELSE raw.json.v

\* try: json.loads(raw) except: []; then the fallback unless a non-empty list
MealsIn(raw) ==
    LET parsed == IF raw.json.t = "invalid" THEN PyList(<<>>) ELSE raw.json
    IN  IF parsed.t # "list" \/ parsed.v = <<>> THEN FALLBACK ELSE parsed.v

\* dict.get(key, default)
Get(d, key, default) == IF d[key].t = "absent" THEN default ELSE d[key]

\* int(x) succeeds
IntOk(x) == x.t = "num"

ITEMS_MAX == 8

\* Whether building the output entry of m raises (AttributeError, TypeError, ValueError).
MealRaises(m) ==
    \/ m.t # "dict"
    \/ ~IntOk(Get(m.v, "kcal", PyNum(400)))
    \/ Get(m.v, "macros", Macros(PyAbsent, PyAbsent, PyAbsent)).t # "dict"
    \/ LET mac == Get(m.v, "macros", Macros(PyAbsent, PyAbsent, PyAbsent)).v
       IN  \/ ~IntOk(Get(mac, "P", PyNum(25)))
           \/ ~IntOk(Get(mac, "C", PyNum(40)))
           \/ ~IntOk(Get(mac, "F", PyNum(12)))

\* The exception building the output entry of m raises first.
MealExc(m) ==
    IF m.t # "dict" THEN [name |-> "AttributeError", msg |-> "no attribute 'get'"]
    ELSE LET k == Get(m.v, "kcal", PyNum(400))
         IN  IF ~IntOk(k)
             THEN IF k.t = "str" THEN [name |-> "ValueError", msg |-> "invalid literal for int()"]
                  ELSE [name |-> "TypeError", msg |-> "int() argument"]
             ELSE IF Get(m.v, "macros", Macros(PyAbsent, PyAbsent, PyAbsent)).t # "dict"
             THEN [name |-> "AttributeError", msg |-> "no attribute 'get'"]
             ELSE [name |-> "TypeError", msg |-> "int() argument"]

\* The entry appended to out for the i-th meal.
MealOut(i, m) ==
    LET mac == Get(m.v, "macros", Macros(PyAbsent, PyAbsent, PyAbsent)).v
    IN  [id |-> i,
         title |-> Get(m.v, "title", PyStr(<<"Meal #", i>>)).v,
         kcal |-> Get(m.v, "kcal", PyNum(400)).v,
         macros |-> [P |-> Get(mac, "P", PyNum(25)).v,
                     C |-> Get(mac, "C", PyNum(40)).v,
                     F |-> Get(mac, "F", PyNum(12)).v],
         items |-> FirstN(PyOr(Get(m.v, "items", PyNone), PyList(<<>>)).v, ITEMS_MAX)]

PlanBodies == { [protein |-> PyNone, fat |-> PyNone, carbs |-> PyNone, prefs |-> PyStr(<<>>)],
                [protein |-> PyNum(150), fat |-> PyNum(60), carbs |-> PyNum(200), prefs |-> PyStr(<<"v">>)] }

\* A handler whose whole body is one completion call: the call is entered.
StartCall(c, route, method, arg, call) ==
    /\ pc' = [pc EXCEPT ![c] = "awaiting"]
    /\ req' = [req EXCEPT ![c] = [route |-> route, method |-> method, arg |-> arg, call |-> call]]
    /\ UNCHANGED <<now, users, preferences, conversations, messages, nextMsgId, session, ev>>

Plan(c) ==
    /\ pc[c] = "idle"
    /\ IsAuthed(session[c])
    /\ \E data \in PlanBodies :
        StartCall(c, "plan", "POST", data,
                  [messages |-> <<[role |-> "system", content |-> <<"strict json">>],
                                  [role |-> "user", content |-> <<"plan", data>>]>>,
                   max_tokens |-> 700])

\* ------------------------- /analyze_meal, /estimate_macros, /suggest_swaps
AdviceBodies == { [text |-> PyStr(<<>>), macros |-> EmptyDict],
                  [text |-> PyStr(<<"a">>), macros |-> PyDict(<<"P">>)] }

AnalyzeMeal(c) ==
    /\ pc[c] = "idle"
    /\ IsAuthed(session[c])
    /\ \E data \in AdviceBodies :
        StartCall(c, "analyze_meal", "POST", data,
                  [messages |-> <<[role |-> "system", content |-> <<"concise">>],
                                  [role |-> "user", content |-> <<"analyze", data.macros, data.text>>]>>,
                   max_tokens |-> 220])

EstimateMacros(c) ==
    /\ pc[c] = "idle"
    /\ IsAuthed(session[c])
    /\ \E data \in AdviceBodies :
        StartCall(c, "estimate_macros", "POST", data,
                  [messages |-> <<[role |-> "system", content |-> <<"short">>],
                                  [role |-> "user", content |-> <<"estimate", data.text>>]>>,
                   max_tokens |-> 180])

SuggestSwaps(c) ==
    /\ pc[c] = "idle"
    /\ IsAuthed(session[c])
    /\ \E data \in AdviceBodies :
        StartCall(c, "suggest_swaps", "POST", data,
                  [messages |-> <<[role |-> "system", content |-> <<"brief">>],
                                  [role |-> "user", content |-> <<"swaps", data.macros, data.text>>]>>,
                   max_tokens |-> 220])

\* ----------------------------------------- the completion call returns
TurnRoutes == {"conv_messages", "chat"}
AdviceKey == [analyze_meal |-> "advice", estimate_macros |-> "summary", suggest_swaps |-> "swaps"]

RawsFor(route) == IF route = "plan" THEN PlanRaws ELSE ChatRaws

Finish(c) ==
    /\ pc' = [pc EXCEPT ![c] = "idle"]
    /\ req' = [req EXCEPT ![c] = NoReq]

\* m_ai is added, updated_at is set, the session commits both rows.  The
\* clock is read when chat_complete has returned, which is any moment since
\* it was entered, and the commit follows later: other requests may commit
\* between the two, so the value written is any reading from `entered` on.
CommitTurn(c, raw) ==
    LET r == req[c]
        reply == Content(raw).chars
        m_ai == [id |-> nextMsgId, conversation_id |-> r.cid, role |-> "assistant",
                 content |-> reply]
    IN  /\ messages' = messages \cup {r.m_user, m_ai}
        /\ nextMsgId' = nextMsgId + 1
        /\ \E utcnow \in r.entered..now :
              conversations' = [conversations EXCEPT ![r.cid].updated_at = utcnow]
        /\ RespondAfter(c, r.route, r.method, r.arg, Returned(raw), 200,
                        IF r.route = "chat" THEN Json([reply |-> reply])
                        ELSE Json([reply |-> reply, message_id |-> m_ai.id]))
        /\ UNCHANGED <<now, users, preferences, session>>

PlanResult(c, raw) ==
    LET r == req[c]
        meals_in == MealsIn(Content(raw))
        bad == {i \in DOMAIN meals_in : MealRaises(meals_in[i])}
    IN  /\ IF bad # {}
           THEN \* the first meal that raises ends the loop in the except branch
                LET i == CHOOSE k \in bad : \A l \in bad : k <= l
                IN  RespondAfter(c, r.route, r.method, r.arg, Returned(raw), 500,
                                 Json([error |-> ErrorText(MealExc(meals_in[i]))]))
           ELSE RespondAfter(c, r.route, r.method, r.arg, Returned(raw), 200,
                             Json([meals |-> [i \in DOMAIN meals_in |-> MealOut(i, meals_in[i])]]))
        /\ UNCHANGED <<now, users, preferences, conversations, messages, nextMsgId, session>>

AdviceResult(c, raw) ==
    LET r == req[c]
    IN  /\ RespondAfter(c, r.route, r.method, r.arg, Returned(raw), 200,
                        [kind |-> "json", key |-> AdviceKey[r.route], json |-> Content(raw).chars])
        /\ UNCHANGED <<now, users, preferences, conversations, messages, nextMsgId, session>>

CompletionReturn(c) ==
    /\ pc[c] = "awaiting"
    /\ \E raw \in RawsFor(req[c].route) :
          IF req[c].route \in TurnRoutes THEN CommitTurn(c, raw)
          ELSE IF req[c].route = "plan" THEN PlanResult(c, raw)
          ELSE AdviceResult(c, raw)
    /\ Finish(c)

\* ------------------------------------------- the completion call raises
\* except Exception as e: ... 500 with the name and message, where the
\* handler has a try; the two chat-turn handlers have none.
RaisedBody(route, e) ==
    IF route \in TurnRoutes THEN Unhandled ELSE Json([error |-> ErrorText(e)])

CompletionRaise(c) ==
    /\ pc[c] = "awaiting"
    /\ \E e \in Excs :
        LET r == req[c]
        IN  RespondAfter(c, r.route, r.method, r.arg, Raised(e), 500, RaisedBody(r.route, e))
    \* the session closes without a commit: the flushed user row is rolled back
    /\ Finish(c)
    /\ UNCHANGED <<now, users, preferences, conversations, messages, nextMsgId, session>>

Next ==
    \/ Tick
    \/ \E c \in Clients : Health(c)
    \/ \E c \in Clients : Login(c)
    \/ \E c \in Clients : LoginInsert(c)
    \/ \E c \in Clients : RequireAuthRefuse(c)
    \/ \E c \in Clients : Preflight(c)
    \/ \E c \in Clients : Logout(c)
    \/ \E c \in Clients : Me(c)
    \/ \E c \in Clients : Preferences(c)
    \/ \E c \in Clients : Conversations(c)
    \/ \E c \in Clients : ConvMessages(c)
    \/ \E c \in Clients : Chat(c)
    \/ \E c \in Clients : Plan(c)
    \/ \E c \in Clients : AnalyzeMeal(c)
    \/ \E c \in Clients : EstimateMacros(c)
    \/ \E c \in Clients : SuggestSwaps(c)
    \/ \E c \in Clients : CompletionReturn(c)
    \/ \E c \in Clients : CompletionRaise(c)

Spec == Init /\ [][Next]_vars

\* The same server with the traffic of one part of it: the session gate ...
NextAuth ==
    \/ \E c \in Clients : Health(c)
    \/ \E c \in Clients : Login(c)
    \/ \E c \in Clients : LoginInsert(c)
    \/ \E c \in Clients : RequireAuthRefuse(c)
    \/ \E c \in Clients : Preflight(c)
    \/ \E c \in Clients : Logout(c)
    \/ \E c \in Clients : Me(c)
    \/ \E c \in Clients : Preferences(c)
    \/ \E c \in Clients : EstimateMacros(c)
    \/ \E c \in Clients : CompletionReturn(c)
    \/ \E c \in Clients : CompletionRaise(c)

SpecAuth == Init /\ [][NextAuth]_vars

\* ... the conversations and their messages ...
NextChat ==
    \/ Tick
    \/ \E c \in Clients : LoginRight(c)
    \/ \E c \in Clients : LoginInsert(c)
    \/ \E c \in Clients : Conversations(c)
    \/ \E c \in Clients : ConvMessages(c)
    \/ \E c \in Clients : Chat(c)
    \/ \E c \in Clients : CompletionReturn(c)
    \/ \E c \in Clients : CompletionRaise(c)

SpecChat == Init /\ [][NextChat]_vars

\* ... and the stateless completion routes.
NextPlan ==
    \/ \E c \in Clients : LoginRight(c)
    \/ \E c \in Clients : LoginInsert(c)
    \/ \E c \in Clients : Plan(c)
    \/ \E c \in Clients : AnalyzeMeal(c)
    \/ \E c \in Clients : EstimateMacros(c)
    \/ \E c \in Clients : SuggestSwaps(c)
    \/ \E c \in Clients : CompletionReturn(c)
    \/ \E c \in Clients : CompletionRaise(c)

SpecPlan == Init /\ [][NextPlan]_vars

\* ================================================================ claims
\* What str.strip() is to give, said without computing it: t is s less a
\* whitespace prefix and a whitespace suffix, and t neither starts nor ends
\* with whitespace.
IsStripOf(t, s) ==
    \E i \in 0..Len(s) :
        /\ i + Len(t) <= Len(s)
        /\ SubSeq(s, i + 1, i + Len(t)) = t
        /\ \A k \in 1..Len(s) : (k <= i \/ k > i + Len(t)) => s[k] \in Whitespace
        /\ t # <<>> => (t[1] \notin Whitespace /\ t[Len(t)] \notin Whitespace)

\* The session does not hold authed = true together with a user_id.
Unauthenticated(c) == ~(session[c].authed = TRUE /\ session[c].user_id # 0)

\* This step sends client c a response on `routes`.
Answers(c, routes) == ev' # ev /\ ev'.client = c /\ ev'.route \in routes

\* ------------------------------------------------------------------- C1
\* C1 as stated: every request to a wrapped route from a session that is not
\* authenticated is answered 401, whatever its method, the handler is not
\* run, no row changes and no completion call is made.
C1_AllMethods401 ==
    [][\A c \in Clients : (Unauthenticated(c) /\ pc[c] = "idle") =>
          /\ pc'[c] # "awaiting"
          /\ Answers(c, GatedRoutes) =>
                /\ ev'.status = 401
                /\ UNCHANGED <<users, preferences, conversations, messages, session, pc, req>>]_vars

\* C1 amended: such a request is answered 401, or 204 with an empty body when
\* its method is OPTIONS; either way the handler is not run, no row and no
\* session changes and no completion call is made.
C1_GateRefuses ==
    [][\A c \in Clients : (Unauthenticated(c) /\ pc[c] = "idle") =>
          /\ pc'[c] # "awaiting"
          /\ Answers(c, GatedRoutes) =>
                /\ ev'.method # "OPTIONS" => (ev'.status = 401 /\ ev'.body = [kind |-> "abort", code |-> 401])
                /\ ev'.method = "OPTIONS" => (ev'.status = 204 /\ ev'.body = [kind |-> "empty"])
                /\ ev'.got = [kind |-> "empty"]
                /\ UNCHANGED <<users, preferences, conversations, messages, session, pc, req>>]_vars

\* A wrapped route refused with 401 a client that holds no session, while the
\* database holds rows and another client is logged in.
C1_Witness ==
    /\ ev.client \in Clients
    /\ ev.route \in GatedRoutes
    /\ ev.status = 401
    /\ Unauthenticated(ev.client)
    /\ preferences # <<>>
    /\ \E d \in Clients : ~Unauthenticated(d)

\* ------------------------------------------------------------------- C2
LoginAnswered(c) == Answers(c, {"login"}) /\ ev'.method = "POST"

\* C2 as stated: a login whose submitted password, a string, differs from
\* APP_PASSWORD is answered 401 and leaves the session and the users table
\* as they were.
C2_DifferentPasswordRefused ==
    [][\A c \in Clients : (LoginAnswered(c) /\ ev'.arg.password.t = "str"
                              /\ ev'.arg.password.v # APP_PASSWORD) =>
          /\ ev'.status = 401
          /\ UNCHANGED <<session, users>>]_vars

\* C2 amended: a login whose submitted password, a string, differs from
\* APP_PASSWORD once its surrounding whitespace is stripped (a missing or null
\* password counts as the empty string) is answered 401; a password that is
\* no string is answered 500; both leave every session and the users table
\* exactly as they were.
C2_WrongPasswordRefused ==
    [][\A c \in Clients : LoginAnswered(c) =>
          LET p == ev'.arg.password
          IN  /\ (p.t = "none" \/ (p.t = "str" /\ ~IsStripOf(APP_PASSWORD, p.v))) =>
                    (ev'.status = 401 /\ UNCHANGED <<session, users, pc>>)
              /\ p.t \notin {"none", "str"} =>
                    (ev'.status = 500 /\ UNCHANGED <<session, users, pc>>)]_vars

\* A wrong password was refused with 401 for a client that was logged in and
\* still is.
C2_Witness ==
    /\ ev.route = "login"
    /\ ev.status = 401
    /\ ev.arg.password.t = "str"
    /\ session[ev.client].authed
    /\ Cardinality(users) = 1

\* ------------------------------------------------------------------ C10
\* C10 as stated: the users table never holds more than one row, and every
\* established session carries the id of that row.
C10_SingleUser ==
    /\ Cardinality(users) <= 1
    /\ \A c \in Clients : session[c].authed => users = {session[c].user_id}

\* ------------------------------------------------------------------- C6
FallbackMeals ==
    << [id |-> 1, title |-> "High-Protein Breakfast Bowl", kcal |-> 520,
        macros |-> [P |-> 45, C |-> 55, F |-> 15],
        items |-> <<"4 eggs (2 whole, 2 whites)", "Oats 60g", "Blueberries", "Almonds">>],
       [id |-> 2, title |-> "Simple Steak & Rice", kcal |-> 680,
        macros |-> [P |-> 55, C |-> 65, F |-> 20],
        items |-> <<"Sirloin 7oz", "Jasmine rice 200g cooked", "Broccoli", "Olive oil">>],
       [id |-> 3, title |-> "Greek Yogurt Parfait", kcal |-> 380,
        macros |-> [P |-> 30, C |-> 40, F |-> 10],
        items |-> <<"Greek yogurt 250g", "Honey 1 tsp", "Granola 30g", "Strawberries">>],
       [id |-> 4, title |-> "Evening Snack Wrap", kcal |-> 360,
        macros |-> [P |-> 25, C |-> 35, F |-> 10],
        items |-> <<"Whole-wheat wrap", "Turkey 4oz", "Spring mix", "Greek yogurt sauce">>] >>

\* The completion call of a /plan request returned text that is no JSON, or
\* JSON that is no list, or the empty list.
PlanUnusable ==
    /\ ev.route = "plan"
    /\ ev.got.kind = "returned"
    /\ (ev.got.raw.json.t # "list" \/ Len(ev.got.raw.json.v) = 0)

\* C6: a /plan whose completion call returns text that is not valid JSON, not
\* a list or an empty list is answered 200 with the four fallback meals, ids
\* 1..4 in order, whatever the request body.
C6_FallbackPlan ==
    PlanUnusable => (ev.status = 200 /\ ev.body = [kind |-> "json", json |-> [meals |-> FallbackMeals]])

\* The completion call returned "[]" to a /plan that asked for 150 g protein.
C6_Witness ==
    /\ PlanUnusable
    /\ ev.got.raw.json.t = "list"
    /\ ev.arg.protein.t = "num"
    /\ ev.status = 200

\* ------------------------------------------------------------------- C7
\* C7 as stated: a request whose completion call raised ends with a 500 whose
\* body carries the exception's class name and message.
C7_RaiseCarriesNameAndMessage ==
    ev.got.kind = "raised" =>
        /\ ev.status = 500
        /\ ev.body.kind = "json"
        /\ ev.body.json = [error |-> <<ev.got.exc.name, ": ", ev.got.exc.msg>>]

\* ------------------------------------------------------------------- C3
NotOwned(u, cid) == cid \notin DOMAIN conversations \/ conversations[cid].user_id # u

\* C3: GET and POST on the messages of a conversation that the authenticated
\* user does not own, or that does not exist, are answered 404 with no
\* message; no row changes and no completion call is entered for it.
C3_ForeignConversation404 ==
    [][\A c \in Clients : ~Unauthenticated(c) =>
          /\ (Answers(c, {"conv_messages"}) /\ ev'.method \in {"GET", "POST"}
                /\ NotOwned(session[c].user_id, ev'.arg.cid)) =>
                /\ ev'.status = 404
                /\ ev'.body = [kind |-> "abort", code |-> 404]
                /\ UNCHANGED <<messages, conversations, nextMsgId, pc, req>>
          /\ (pc[c] = "idle" /\ pc'[c] = "awaiting" /\ req'[c].route = "conv_messages") =>
                ~NotOwned(session[c].user_id, req'[c].cid)]_vars

\* A user asked for a conversation that exists, holds messages and belongs to
\* the other user, and got 404.
C3_Witness ==
    /\ ev.route = "conv_messages"
    /\ ev.status = 404
    /\ ev.arg.cid \in DOMAIN conversations
    /\ conversations[ev.arg.cid].user_id # session[ev.client].user_id
    /\ \E m \in messages : m.conversation_id = ev.arg.cid

\* ------------------------------------------------------------------- C4
\* This step answers client c's chat turn with a reply.
TurnAnswered(c) ==
    /\ pc[c] = "awaiting" /\ req[c].route \in TurnRoutes
    /\ pc'[c] = "idle" /\ ev'.status = 200

\* The text the client submitted ("" when /chat is sent no message).
Submitted(c) == IF req[c].arg.message.t = "str" THEN req[c].arg.message.v ELSE <<>>

\* Every contiguous piece of s.
Pieces(s) == {SubSeq(s, i, j) : i \in 1..(Len(s) + 1), j \in 0..Len(s)}

\* The step appends to req[c].cid exactly a user row with one of `texts` and
\* then an assistant row holding the reply sent, and leaves every other
\* conversation and its rows alone.
TurnEffect(c, texts) ==
    LET cid == req[c].cid
        new == messages' \ messages
    IN  /\ messages \subseteq messages'
        /\ \E m1, m2 \in new :
              /\ new = {m1, m2}
              /\ m1.id < m2.id
              /\ m1.conversation_id = cid /\ m2.conversation_id = cid
              /\ m1.role = "user" /\ m1.content \in texts
              /\ m2.role = "assistant" /\ m2.content = ev'.body.json.reply
        /\ DOMAIN conversations' = DOMAIN conversations
        /\ \A d \in DOMAIN conversations : d # cid =>
              conversations'[d] = conversations[d]
        /\ conversations'[cid].user_id = conversations[cid].user_id
        /\ conversations'[cid].title = conversations[cid].title

\* C4 as stated: an answered post appends the user row with the submitted
\* text and the assistant row with the reply, and sets updated_at to a value
\* not earlier than the one it replaces.
C4_StoresSubmittedText ==
    [][\A c \in Clients : TurnAnswered(c) =>
          /\ TurnEffect(c, {Submitted(c)})
          /\ conversations'[req[c].cid].updated_at >= conversations[req[c].cid].updated_at]_vars

\* C4 as stated, but for the text: the user row holds the submitted text
\* stripped of its surrounding whitespace.
C4_StrippedTextNotEarlier ==
    [][\A c \in Clients : TurnAnswered(c) =>
          /\ TurnEffect(c, {t \in Pieces(Submitted(c)) : IsStripOf(t, Submitted(c))})
          /\ conversations'[req[c].cid].updated_at >= conversations[req[c].cid].updated_at]_vars

\* C4 amended: the user row holds the submitted text stripped of its
\* surrounding whitespace, and updated_at is set to a clock reading taken
\* during the request, so to a value not earlier than the one the
\* conversation had when the request began; the rest as stated.
C4_StoresStrippedText ==
    [][\A c \in Clients :
          /\ (pc[c] = "idle" /\ pc'[c] = "awaiting" /\ req'[c].route \in TurnRoutes) =>
                conversations'[req'[c].cid].updated_at <= req'[c].entered
          /\ TurnAnswered(c) =>
                /\ TurnEffect(c, {t \in Pieces(Submitted(c)) : IsStripOf(t, Submitted(c))})
                /\ conversations'[req[c].cid].updated_at >= req[c].entered
                /\ conversations'[req[c].cid].updated_at <= now]_vars

\* A message sent with surrounding whitespace was answered while another
\* conversation holds rows of its own, and the clock had moved since the
\* conversation was created.
C4_Witness ==
    /\ ev.route = "conv_messages"
    /\ ev.status = 200
    /\ ev.arg.message.v = <<" ", "a", " ">>
    /\ conversations[ev.arg.cid].updated_at > 0
    /\ \E m \in messages : m.conversation_id # ev.arg.cid

\* ------------------------------------------------------------------- C5
\* C5 as stated: the completion call of a chat turn is given the system
\* prompt, then the last 12 messages stored in the conversation before the
\* request, in stored order, then the new user message once.
C5_ContextIsHistoryPlusNew ==
    [][\A c \in Clients : (pc[c] = "idle" /\ pc'[c] = "awaiting" /\ req'[c].route \in TurnRoutes) =>
          LET sent == req'[c].call.messages
              before == SortById({m \in messages : m.conversation_id = req'[c].cid})
              window == IF Len(before) <= 12 THEN before
                        ELSE SubSeq(before, Len(before) - 11, Len(before))
          IN  /\ Len(sent) = 1 + Len(window) + 1
              /\ sent[1].role = "system"
              /\ \A i \in 1..Len(window) :
                    sent[1 + i] = [role |-> window[i].role, content |-> window[i].content]
              /\ sent[Len(sent)] = [role |-> "user", content |-> req'[c].text]]_vars

\* ------------------------------------------------------------------- C8
\* C8: GET on an owned conversation returns exactly the committed rows of
\* that conversation, each once, in ascending id, the order of insertion.
C8_MessagesInInsertionOrder ==
    (ev.route = "conv_messages" /\ ev.method = "GET" /\ ev.status = 200) =>
        LET l == ev.body.json.msgs
        IN  /\ {l[i] : i \in DOMAIN l} = {m \in messages : m.conversation_id = ev.arg.cid}
            /\ \A i, j \in DOMAIN l : i < j => l[i].id < l[j].id

\* A GET returned the two rows of a turn between whose inserts another
\* conversation's rows were inserted.
C8_Witness ==
    /\ ev.route = "conv_messages" /\ ev.method = "GET" /\ ev.status = 200
    /\ Len(ev.body.json.msgs) = 2
    /\ ev.body.json.msgs[2].id > ev.body.json.msgs[1].id + 1
    /\ \E m \in messages : m.conversation_id # ev.arg.cid

\* ------------------------------------------------------------------- C9
\* C9 as stated: in every committed state the rows of each conversation, in
\* id order, are consecutive (user, assistant) pairs.
C9_PairsInIdOrder ==
    \A cid \in DOMAIN conversations :
        LET l == SortById({m \in messages : m.conversation_id = cid})
        IN  /\ Len(l) % 2 = 0
            /\ \A i \in DOMAIN l : l[i].role = IF i % 2 = 1 THEN "user" ELSE "assistant"
====
